---------------------------- MODULE Spec2Model ----------------------------
(***************************************************************************)
(* A model of the orchestrator of apps/orchestrator/src: the phase engine  *)
(* (executeAutonomousLoop, executePhase, the phase handlers and            *)
(* recoverFromError), the process runner (runClaude with its timeout and   *)
(* its interrupt-and-restart), the ResourceManager and the FeedbackStore.  *)
(*                                                                         *)
(* Node runs one macrotask at a time and drains the microtask queue after  *)
(* it.  The engine's position is pc; the engine's steps between two        *)
(* suspension points run with no event in between (EnvEnabled is false),   *)
(* and every event handler (a subprocess closing, a timer firing, a        *)
(* feedback message) is one action.                                        *)
(*                                                                         *)
(* Time is counted in ticks of timeoutMs / 2, the smallest deadline the    *)
(* program sets.  A timer holds the ticks it has left; it fires at 0, and  *)
(* time does not advance past a timer that is due.                         *)
(*                                                                         *)
(* Three specifications share the module: Spec (the orchestrator), SpecRM  *)
(* (ResourceManager.executeOperation driven by arbitrary callers) and      *)
(* SpecFB (FeedbackStore driven by arbitrary callers).                     *)
(***************************************************************************)
EXTENDS Integers, Sequences, FiniteSets, TLC

VARIABLES
    \* SessionState (index.ts 17-39)
    phase, iteration, sessionId,
    \* the phase engine's position and the operation it awaits
    pc, opId, opForced, errClass, retries, recFrom,
    \* ResourceManager (index.ts 97-99) and the timer of the awaited race
    activeOperations, rmTimer,
    \* process runner: subprocesses, Orchestrator.currentClaudeProcess,
    \* Orchestrator.shouldInterruptForFeedback
    procs, currentClaudeProcess, shouldInterruptForFeedback,
    \* FeedbackStore.queue, the number of feedback messages received so far,
    \* the feedback handlers suspended at the acknowledgement
    queue, nextFb, acking,
    \* history: the feedback items whose handler set the interrupt flag since
    \* it was last cleared
    interruptBy,
    \* history: the feedback items of the prompts of the awaited invocations
    \* that failed, less the items of the prompts built since
    unserved,
    \* SessionState.errors; the session file written by saveSessionState
    \* (<<>>: there is none); the status and the writer of the last
    \* checkpoint written; the exit status of the process (-1: running)
    errors, saved, lastCheckpoint, exitCode,
    \* history of the current recoverFromError call: the recovery attempts
    \* started, and those that failed with a rate-limit error
    attempts, rlAttempts,
    \* history: some phase operation or recovery attempt has failed with an
    \* error that names no rate limit in any letter case
    nonRateFailure,
    \* history: phase and iteration when the loop last dispatched on phase
    opStart,
    \* Orchestrator.isShuttingDown; the ticks left of the bounded wait of
    \* ResourceManager.cleanup (-1: no cleanup is waiting); history: the
    \* shutdown signals received and the shutdown sequences completed
    isShuttingDown, cleanupTimer, signals, shutdowns,
    \* history: the times the process was stopped and started again
    restarts,
    \* SessionState.metrics
    metrics,
    \* SpecRM: the callers of executeOperation
    calls,
    \* SpecFB: history of the batches returned by dequeueAll
    drained,
    \* SpecOut: the exit code and the output lines of a subprocess, and what
    \* the runClaude call settled with
    exitStatus, stdout, runResult,
    \* SpecCP: the checkpoint files of the .claude directory, Date.now(), and
    \* history: the createCheckpoint calls made and those made in the same
    \* millisecond as the call before
    checkpoints, clock, written, stalls,
    \* SpecLoad: the parsed content of a session file, and the SessionState
    \* loadSessionState has built from it (<<>>: it has not run)
    sessionFile, loaded

vars == <<phase, iteration, sessionId, pc, opId, opForced, errClass, retries,
          recFrom, activeOperations, rmTimer, procs, currentClaudeProcess,
          shouldInterruptForFeedback, queue, nextFb, acking, interruptBy, unserved,
          errors, saved, lastCheckpoint, exitCode, attempts, rlAttempts,
          nonRateFailure, opStart, isShuttingDown, cleanupTimer, signals, shutdowns,
          restarts, metrics, calls, drained, exitStatus, stdout, runResult,
          checkpoints, clock, written, stalls, sessionFile, loaded>>

sessionVars == <<phase, iteration, sessionId>>
engineVars  == <<pc, opId, opForced, errClass, retries, recFrom>>
rmVars      == <<activeOperations, rmTimer>>
procVars    == <<procs, currentClaudeProcess, shouldInterruptForFeedback, interruptBy,
                 unserved>>
fbVars      == <<queue, nextFb, acking>>
auditVars   == <<errors, saved, lastCheckpoint, exitCode, attempts, rlAttempts,
                 nonRateFailure>>
outVars     == <<exitStatus, stdout, runResult>>
cpVars      == <<checkpoints, clock, written, stalls>>
loadVars    == <<sessionFile, loaded>>
harnessVars == <<calls, drained, outVars, cpVars, loadVars>>
\* what only the loop's dispatch, a shutdown or a restart write
shutdownVars == <<isShuttingDown, cleanupTimer, signals, shutdowns>>
quietVars   == <<opStart, shutdownVars, restarts, metrics>>

-----------------------------------------------------------------------------
(* Configuration and bounds *)

\* The three limits the environment configures; the model runs with small
\* values of them.
\* MAX_ITERATIONS (default 12)
maxIterations == 4
\* MAX_RETRIES (default 3)
maxRetries == 2
\* MAX_CONCURRENT_OPS (default 5)
maxConcurrentOps == 2
\* DEFAULT_TIMEOUT, in ticks: one tick is timeoutMs / 2
timeoutMs == 2
\* subprocesses alive at once
MaxProcs == 2
\* feedback messages received in a run
MaxFeedback == 1
\* SpecRM: the longest timeout and the longest operation, in ticks
MaxTimeout == 1
MaxDuration == 2
\* SpecFB: the items enqueued and the dequeueAll calls made
MaxItems == 4
MaxDrains == 4
\* the entries SessionState.errors holds at most
MaxErrors == 2

Phases == {"planning", "implementation", "testing", "critique", "completion", "error"}

\* the timeout executeAutonomousLoop passes to executePhase
PhaseTimeout(name) ==
    CASE name = "implementation" -> timeoutMs * 2
      [] name = "testing"        -> (timeoutMs * 3) \div 2
      [] OTHER                   -> timeoutMs

\* the timeout recoverFromError passes to executeOperation
RecoveryTimeout == timeoutMs \div 2

-----------------------------------------------------------------------------
(* FeedbackStore *)

Range(seq) == {seq[i] : i \in 1..Len(seq)}

enqueue(q, item) == Append(q, item)

dequeueAllKeeps(q) == [items |-> q, queue |-> q]

dequeueAll(q) == [items |-> q, queue |-> <<>>]

\* promptWithFeedback: the prompt is the original prompt followed by the
\* drained items, in queue order
promptWithFeedback(originalPrompt, q) ==
    [prompt |-> [base |-> originalPrompt, feedback |-> dequeueAll(q).items],
     queue  |-> dequeueAll(q).queue]

-----------------------------------------------------------------------------
(* ResourceManager *)

RMFullOffByOne(active) == Cardinality(active) > maxConcurrentOps

RMFull(active) == Cardinality(active) >= maxConcurrentOps

RMAdd(active, id) == active \cup {id}

RMDeleteKeeps(active, id) == active

RMDelete(active, id) == active \ {id}

-----------------------------------------------------------------------------
(* Subprocesses *)

ProcIds == 1..MaxProcs

FreeProc == [st |-> "free", sig |-> "none", timer |-> -1, handler |-> "none",
             settled |-> FALSE, awaited |-> FALSE, twin |-> FALSE,
             args |-> 0, input |-> [base |-> "none", feedback |-> <<>>]]

\* a subprocess as runClaude spawns it: args is the --resume handle (0: none),
\* input the prompt, timer the runClaude timeout, handler the caller whose
\* continuation awaits the call, settled whether the call's promise is
\* already settled, awaited whether the engine awaits the operation of the
\* call, twin whether the timeout of the call and the timeout of its
\* operation were set in the same turn of the event loop for the same delay
NewProc(handler, args, input, settled, awaited, twin) ==
    [st |-> "live", sig |-> "none", timer |-> timeoutMs, handler |-> handler,
     settled |-> settled, awaited |-> awaited, twin |-> twin,
     args |-> args, input |-> input]

\* The arguments of a call are read when its subprocess is spawned and when
\* it is restarted.  Once no one awaits the call's result the model no longer
\* tells such calls apart by their arguments.
Forget(pr) == [pr EXCEPT !.args = 0, !.input = [base |-> "none", feedback |-> <<>>]]

Live(ps) == {p \in ProcIds : ps[p].st = "live"}

\* Timers set in the same turn of the event loop for the same delay fire in
\* the same timers phase, in the order they were set, with only microtasks
\* in between: when the timeout of an operation has fired, the timeout of
\* the call it started with the same delay fires before any other event.
TwinDue(p) ==
    procs[p].st = "live" /\ procs[p].twin /\ procs[p].timer = 0 /\ ~procs[p].awaited

NoTwinDue == \A p \in ProcIds : ~TwinDue(p)

FreeSlot(ps) ==
    IF \E p \in ProcIds : ps[p].st = "free"
    THEN CHOOSE p \in ProcIds : ps[p].st = "free" /\ \A q \in ProcIds : ps[q].st = "free" => p <= q
    ELSE 0

\* how a subprocess can end: exit code 0 with parsable output ("ok"), a
\* failure ("fail"), a failure whose output contains 'rate limit',
\* 'Rate limit' or 'too many requests' ("rate"), which runClaude rejects
\* with a RATE_LIMIT error, and a failure whose output names a rate limit
\* in another letter case, such as "Rate Limit" or "RATE LIMIT"
\* ("ratecase"), which runClaude rejects like any other failure; a
\* subprocess killed with SIGKILL ends with no exit code
Outcomes == {"ok", "fail", "rate", "ratecase"}

\* recoverFromError's test of an error message: it includes 'RATE_LIMIT',
\* 'rate limit' or 'too many requests'; of the messages of Outcomes only
\* the RATE_LIMIT error of runClaude does
IsRateLimit(msg) == msg = "rate"

ExitOutcomes(sig) == IF sig = "kill" THEN {"fail"} ELSE Outcomes

\* what the phase handlers read in the turns of a successful call: the
\* session_id of the first turn that has one (0: none) and whether the
\* joined result texts contain "fail", "error" or "critical"
Turns == [session_id : {0, 1}, hasFailures : BOOLEAN]

NoTurns == [session_id |-> 0, hasFailures |-> FALSE]

\* the metrics of a session that starts afresh
ZeroMetrics == [totalOperations |-> 0, successfulOperations |-> 0, failedOperations |-> 0]

\* saveSessionState: the file holds JSON.stringify(sessionState), which
\* leaves out a sessionId that is undefined.  A parsed file is a function
\* from the names of the fields it has to their values.
saveSessionState(ph, it, sid, errs, m) ==
    IF sid = 0
    THEN [phase |-> ph, iteration |-> it, errors |-> errs, metrics |-> m]
    ELSE [phase |-> ph, iteration |-> it, sessionId |-> sid, errors |-> errs, metrics |-> m]

\* loadSessionState, the object it builds from a parsed file: the fields of
\* the file, with errors and metrics replaced by their initial values if the
\* file has none
restoreSession(state) ==
    [f \in DOMAIN state \cup {"errors", "metrics"} |->
        CASE f = "errors"  -> IF "errors" \in DOMAIN state THEN state.errors ELSE <<>>
          [] f = "metrics" -> IF "metrics" \in DOMAIN state THEN state.metrics ELSE ZeroMetrics
          [] OTHER         -> state[f]]

\* loadSessionState: the session restored from the file, or a fresh session
\* if there is none (sessionId 0: undefined)
loadSessionState(files) ==
    IF files = <<>>
    THEN [phase |-> "planning", iteration |-> 0, sessionId |-> 0, errors |-> <<>>,
          metrics |-> ZeroMetrics]
    ELSE [phase |-> restoreSession(files[1]).phase,
          iteration |-> restoreSession(files[1]).iteration,
          sessionId |-> IF "sessionId" \in DOMAIN files[1] THEN files[1].sessionId ELSE 0,
          errors |-> restoreSession(files[1]).errors,
          metrics |-> restoreSession(files[1]).metrics]

-----------------------------------------------------------------------------
(* Initial state *)

Init ==
    /\ phase = "planning"
    /\ iteration = 0
    /\ sessionId = 0
    /\ pc = "setup"
    /\ opId = <<"none", 0>>
    /\ opForced = FALSE
    /\ errClass = "none"
    /\ retries = 0
    /\ recFrom = "catch"
    /\ activeOperations = {}
    /\ rmTimer = -1
    /\ procs = [p \in ProcIds |-> FreeProc]
    /\ currentClaudeProcess = 0
    /\ shouldInterruptForFeedback = FALSE
    /\ queue = <<>>
    /\ nextFb = 0
    /\ acking = {}
    /\ interruptBy = {}
    /\ unserved = {}
    /\ errors = <<>>
    /\ saved = <<>>
    /\ lastCheckpoint = <<"none", "none">>
    /\ exitCode = -1
    /\ attempts = 0
    /\ rlAttempts = 0
    /\ nonRateFailure = FALSE
    /\ opStart = [phase |-> "planning", iteration |-> 0]
    /\ isShuttingDown = FALSE
    /\ cleanupTimer = -1
    /\ signals = 0
    /\ shutdowns = 0
    /\ restarts = 0
    /\ metrics = ZeroMetrics
    /\ calls = <<>>
    /\ drained = <<>>
    /\ exitStatus = 0
    /\ stdout = <<>>
    /\ runResult = "none"
    /\ checkpoints = {}
    /\ clock = 0
    /\ written = 0
    /\ stalls = 0
    /\ sessionFile = <<>>
    /\ loaded = <<>>

\* the suspension points of the engine: events are handled only here
EnvEnabled == pc \in {"setup", "await_phase", "await_rec", "rl_sleep", "rec_rl_sleep", "backoff"}

Awaiting == pc \in {"await_phase", "await_rec"}

-----------------------------------------------------------------------------
(* The phase engine *)

\* ResourceManager.executeOperation up to its await, with the synchronous
\* part of the operation: the capacity check; then the id is registered, the
\* timeout timer set, and the operation called, which builds its prompt
\* (draining the feedback queue) and calls runClaude, which spawns the
\* subprocess and records it as currentClaudeProcess.
StartOperation(id, handler, timeout, pcAwait, pcFail) ==
    IF RMFull(activeOperations)
    THEN /\ pc' = pcFail
         /\ errClass' = "fail"
         /\ opId' = id
         /\ UNCHANGED <<activeOperations, rmTimer, queue, procs, currentClaudeProcess,
                        unserved>>
    ELSE /\ FreeSlot(procs) # 0
         /\ activeOperations' = RMAdd(activeOperations, id)
         /\ rmTimer' = timeout
         /\ queue' = promptWithFeedback(handler, queue).queue
         /\ procs' = [procs EXCEPT ![FreeSlot(procs)] =
                         NewProc(handler, sessionId,
                                 promptWithFeedback(handler, queue).prompt, FALSE, TRUE,
                                 timeout = timeoutMs)]
         /\ currentClaudeProcess' = FreeSlot(procs)
         /\ unserved' = unserved \ Range(promptWithFeedback(handler, queue).prompt.feedback)
         /\ pc' = pcAwait
         /\ opId' = id
         /\ UNCHANGED errClass

\* run(): setupDiscordIfEnabled has registered the feedback handler and
\* returns; executeAutonomousLoop starts
RunStart ==
    /\ pc = "setup"
    /\ pc' = "loop"
    /\ UNCHANGED <<sessionVars, opId, opForced, errClass, retries, recFrom, rmVars,
                   procVars, fbVars, auditVars, harnessVars, quietVars>>

\* executeAutonomousLoop: the while guard holds and the switch dispatches
\* on phase
LoopIterate ==
    /\ pc = "loop"
    /\ iteration < maxIterations
    /\ ~isShuttingDown
    /\ IF phase = "error"
       THEN \* recoverFromError(new Error('System in error state'))
            /\ pc' = "rec_loop"
            /\ retries' = 0
            /\ recFrom' = "errorstate"
            /\ attempts' = 0
            /\ rlAttempts' = 0
            /\ UNCHANGED <<opId, opForced, errClass, rmVars, procs, currentClaudeProcess, queue,
                           unserved, metrics>>
       ELSE /\ metrics' = [metrics EXCEPT !.totalOperations = @ + 1]
            /\ StartOperation(<<phase, 0>>, phase, PhaseTimeout(phase), "await_phase", "phase_fail")
            /\ opForced' = FALSE
            /\ UNCHANGED <<retries, recFrom, attempts, rlAttempts>>
    /\ opStart' = [phase |-> phase, iteration |-> iteration]
    /\ UNCHANGED <<sessionVars, shouldInterruptForFeedback, interruptBy, nextFb, acking,
                   errors, saved, lastCheckpoint, exitCode, nonRateFailure, harnessVars,
                   shutdownVars, restarts>>

LoopExitUnforced ==
    /\ pc = "loop"
    /\ iteration >= maxIterations
    /\ phase' = phase
    /\ StartOperation(<<"completion", 0>>, "completion", PhaseTimeout("completion"),
                      "await_phase", "phase_fail")
    /\ opForced' = TRUE
    /\ metrics' = [metrics EXCEPT !.totalOperations = @ + 1]
    /\ UNCHANGED <<iteration, sessionId, retries, recFrom, shouldInterruptForFeedback,
                   interruptBy, nextFb, acking, auditVars, harnessVars, opStart,
                   shutdownVars, restarts>>

\* executeAutonomousLoop: the while guard fails at the iteration cap; phase
\* is forced to completion and the completion operation started
LoopExit ==
    /\ pc = "loop"
    /\ iteration >= maxIterations
    /\ phase' = "completion"
    /\ StartOperation(<<"completion", 0>>, "completion", PhaseTimeout("completion"),
                      "await_phase", "phase_fail")
    /\ opForced' = TRUE
    /\ metrics' = [metrics EXCEPT !.totalOperations = @ + 1]
    /\ UNCHANGED <<iteration, sessionId, retries, recFrom, shouldInterruptForFeedback,
                   interruptBy, nextFb, acking, auditVars, harnessVars, opStart,
                   shutdownVars, restarts>>

\* executePhase returns; for the completion case the loop returns, for the
\* forced completion the function ends; otherwise iteration is incremented,
\* the session saved and a 'success' checkpoint written
PhaseSucceededTwice ==
    /\ pc = "phase_ok"
    /\ metrics' = [metrics EXCEPT !.successfulOperations = @ + 1]
    /\ IF opId[1] = "completion"
       THEN /\ pc' = "done"
            /\ UNCHANGED <<iteration, saved, lastCheckpoint>>
       ELSE /\ pc' = "loop"
            /\ iteration' = iteration + 2
            /\ saved' = <<saveSessionState(phase, iteration + 2, sessionId, errors, metrics')>>
            /\ lastCheckpoint' = <<"success", "loop">>
    /\ UNCHANGED <<phase, sessionId, opId, opForced, errClass, retries, recFrom, rmVars,
                   procVars, fbVars, errors, exitCode, attempts, rlAttempts,
                   nonRateFailure, harnessVars, opStart, shutdownVars, restarts>>

PhaseSucceeded ==
    /\ pc = "phase_ok"
    /\ metrics' = [metrics EXCEPT !.successfulOperations = @ + 1]
    /\ IF opId[1] = "completion"
       THEN /\ pc' = "done"
            /\ UNCHANGED <<iteration, saved, lastCheckpoint>>
       ELSE /\ pc' = "loop"
            /\ iteration' = iteration + 1
            /\ saved' = <<saveSessionState(phase, iteration + 1, sessionId, errors, metrics')>>
            /\ lastCheckpoint' = <<"success", "loop">>
    /\ UNCHANGED <<phase, sessionId, opId, opForced, errClass, retries, recFrom, rmVars,
                   procVars, fbVars, errors, exitCode, attempts, rlAttempts,
                   nonRateFailure, harnessVars, opStart, shutdownVars, restarts>>

\* executePhase's catch appends the failure to errors and rethrows.  In the
\* loop the catch writes an 'error' checkpoint and calls recoverFromError,
\* which sleeps on a rate-limit message and otherwise enters its retry loop;
\* the failure of the forced completion leaves executeAutonomousLoop.  The
\* caught error is a local of the catch blocks.
PhaseFailed ==
    /\ pc = "phase_fail"
    /\ Len(errors) < MaxErrors
    /\ metrics' = [metrics EXCEPT !.failedOperations = @ + 1]
    /\ errors' = Append(errors, [phase |-> phase, recovered |-> FALSE])
    /\ nonRateFailure' = (nonRateFailure \/ errClass = "fail")
    /\ errClass' = "none"
    /\ IF opForced
       THEN /\ pc' = "aborted"
            /\ UNCHANGED <<retries, recFrom, lastCheckpoint, attempts, rlAttempts>>
       ELSE /\ lastCheckpoint' = <<"error", "catch">>
            /\ IF IsRateLimit(errClass)
               THEN /\ pc' = "rl_sleep"
                    /\ UNCHANGED <<retries, recFrom, attempts, rlAttempts>>
               ELSE /\ pc' = "rec_loop"
                    /\ retries' = 0
                    /\ recFrom' = "catch"
                    /\ attempts' = 0
                    /\ rlAttempts' = 0
    /\ UNCHANGED <<sessionVars, opId, opForced, rmVars, procVars, fbVars, saved, exitCode,
                   harnessVars, opStart, shutdownVars, restarts>>

\* recoverFromError: the rate-limit wait is over and it returns true; the
\* loop continues
WakeRateLimit ==
    /\ pc = "rl_sleep"
    /\ pc' = "loop"
    /\ UNCHANGED <<sessionVars, opId, opForced, errClass, retries, recFrom, rmVars,
                   procVars, fbVars, auditVars, harnessVars, quietVars>>

\* recoverFromError: the while guard; a recovery attempt is started, or the
\* attempts are exhausted and it returns false.  The catch of the loop then
\* rethrows; the 'error' case throws inside the try, so its catch writes an
\* 'error' checkpoint and calls recoverFromError again.
RecoveryLoop ==
    /\ pc = "rec_loop"
    /\ IF retries < maxRetries
       THEN /\ StartOperation(<<"recovery", retries>>, "recovery", RecoveryTimeout,
                              "await_rec", "rec_fail")
            /\ attempts' = attempts + 1
            /\ UNCHANGED <<retries, recFrom, rlAttempts, lastCheckpoint>>
       ELSE /\ IF recFrom = "catch"
               THEN /\ pc' = "aborted"
                    /\ UNCHANGED <<retries, recFrom, attempts, rlAttempts, lastCheckpoint>>
               ELSE /\ pc' = "rec_loop"
                    /\ lastCheckpoint' = <<"error", "catch">>
                    /\ retries' = 0
                    /\ recFrom' = "catch"
                    /\ attempts' = 0
                    /\ rlAttempts' = 0
            /\ UNCHANGED <<opId, errClass, rmVars, procs, currentClaudeProcess, queue,
                           unserved>>
    /\ UNCHANGED <<sessionVars, opForced, shouldInterruptForFeedback, interruptBy,
                   nextFb, acking, errors, saved, exitCode,
                   nonRateFailure, harnessVars, quietVars>>

MarkRecoveredRemoves(errs) ==
    IF errs = <<>> THEN errs ELSE SubSeq(errs, 1, Len(errs) - 1)

\* the last entry of errors marked as recovered, if there is one
MarkRecovered(errs) ==
    IF errs = <<>> THEN errs ELSE [errs EXCEPT ![Len(errs)].recovered = TRUE]

RecoverySucceededUnmarked ==
    /\ pc = "rec_ok"
    /\ pc' = "loop"
    /\ errors' = errors
    /\ IF recFrom = "errorstate"
       THEN /\ iteration' = iteration + 1
            /\ saved' = <<saveSessionState(phase, iteration + 1, sessionId, errors', metrics)>>
            /\ lastCheckpoint' = <<"success", "loop">>
       ELSE UNCHANGED <<iteration, saved, lastCheckpoint>>
    /\ UNCHANGED <<phase, sessionId, opId, opForced, errClass, retries, recFrom, rmVars,
                   procVars, fbVars, exitCode, attempts, rlAttempts, nonRateFailure,
                   harnessVars, quietVars>>

\* recoverFromError: a recovery attempt succeeded; the last entry of errors
\* is marked as recovered and it returns true; from the catch the loop
\* continues, from the 'error' case the switch breaks, iteration is
\* incremented, the session saved and a 'success' checkpoint written
RecoverySucceeded ==
    /\ pc = "rec_ok"
    /\ pc' = "loop"
    /\ errors' = MarkRecovered(errors)
    /\ IF recFrom = "errorstate"
       THEN /\ iteration' = iteration + 1
            /\ saved' = <<saveSessionState(phase, iteration + 1, sessionId, errors', metrics)>>
            /\ lastCheckpoint' = <<"success", "loop">>
       ELSE UNCHANGED <<iteration, saved, lastCheckpoint>>
    /\ UNCHANGED <<phase, sessionId, opId, opForced, errClass, retries, recFrom, rmVars,
                   procVars, fbVars, exitCode, attempts, rlAttempts, nonRateFailure,
                   harnessVars, quietVars>>

\* recoverFromError's backoff: the seconds of the wait that follows a failed
\* attempt, Math.pow(2, retries) with retries already incremented
BackoffSeconds(r) == 2 ^ r

RecoveryFailedRecorded ==
    /\ pc = "rec_fail"
    /\ retries' = retries + 1
    /\ pc' = IF IsRateLimit(errClass) THEN "rec_rl_sleep"
             ELSE IF retries + 1 < maxRetries THEN "backoff"
             ELSE "rec_loop"
    /\ rlAttempts' = IF IsRateLimit(errClass) THEN rlAttempts + 1 ELSE rlAttempts
    /\ nonRateFailure' = (nonRateFailure \/ errClass = "fail")
    /\ errClass' = "none"
    /\ errors' = Append(errors, [phase |-> phase, recovered |-> FALSE])
    /\ UNCHANGED <<sessionVars, opId, opForced, recFrom, rmVars, procVars, fbVars,
                   saved, lastCheckpoint, exitCode, attempts, harnessVars, quietVars>>

\* recoverFromError's catch: retries is incremented, then a rate-limit
\* message waits 30 minutes, any other waits 2^retries seconds unless the
\* attempts are exhausted
RecoveryFailed ==
    /\ pc = "rec_fail"
    /\ retries' = retries + 1
    /\ pc' = IF IsRateLimit(errClass) THEN "rec_rl_sleep"
             ELSE IF retries + 1 < maxRetries THEN "backoff"
             ELSE "rec_loop"
    /\ rlAttempts' = IF IsRateLimit(errClass) THEN rlAttempts + 1 ELSE rlAttempts
    /\ nonRateFailure' = (nonRateFailure \/ errClass = "fail")
    /\ errClass' = "none"
    /\ UNCHANGED <<sessionVars, opId, opForced, recFrom, rmVars, procVars, fbVars,
                   errors, saved, lastCheckpoint, exitCode, attempts, harnessVars, quietVars>>

RunAbortsSilently ==
    /\ pc = "aborted"
    /\ pc' = "exited"
    /\ exitCode' = 1
    /\ UNCHANGED <<sessionVars, opId, opForced, errClass, retries, recFrom, rmVars,
                   procVars, fbVars, errors, saved, lastCheckpoint, attempts, rlAttempts,
                   nonRateFailure, harnessVars, quietVars>>

\* the error leaves executeAutonomousLoop: the catch of run() writes an
\* 'error' checkpoint and rethrows, and main exits the process with status 1
RunAborts ==
    /\ pc = "aborted"
    /\ pc' = "exited"
    /\ lastCheckpoint' = <<"error", "run">>
    /\ exitCode' = 1
    /\ UNCHANGED <<sessionVars, opId, opForced, errClass, retries, recFrom, rmVars,
                   procVars, fbVars, errors, saved, attempts, rlAttempts,
                   nonRateFailure, harnessVars, quietVars>>

\* recoverFromError: a wait inside the retry loop is over
WakeRecovery ==
    /\ pc \in {"rec_rl_sleep", "backoff"}
    /\ pc' = "rec_loop"
    /\ UNCHANGED <<sessionVars, opId, opForced, errClass, retries, recFrom, rmVars,
                   procVars, fbVars, auditVars, harnessVars, quietVars>>

-----------------------------------------------------------------------------
(* The phase handlers after their await of runClaude *)

\* the phase a handler assigns once its runClaude call has returned turns
NextPhase(handler, turns, ph) ==
    CASE handler = "planning"       -> "implementation"
      [] handler = "implementation" -> "testing"
      [] handler = "testing"        -> IF turns.hasFailures THEN "critique" ELSE "completion"
      [] handler = "critique"       -> "implementation"
      [] OTHER                      -> ph

\* executePlanningPhase: the session id of the first turn that carries one
NextSessionId(handler, turns, sid) ==
    IF handler = "planning" /\ turns.session_id # 0 THEN turns.session_id ELSE sid

\* the turns that matter to the handler of a call
TurnsFor(handler, outcome) ==
    IF outcome # "ok" THEN {NoTurns}
    ELSE CASE handler = "planning" -> {t \in Turns : ~t.hasFailures}
           [] handler = "testing"  -> {t \in Turns : t.session_id = 0}
           [] OTHER                -> {NoTurns}

-----------------------------------------------------------------------------
(* The process runner's event handlers *)

\* the race of executeOperation settles: the finally block unregisters the id
SettleOperation(nextPc, class) ==
    /\ pc' = nextPc
    /\ errClass' = class
    /\ activeOperations' = RMDelete(activeOperations, opId)
    /\ rmTimer' = -1

OkPc == IF pc = "await_phase" THEN "phase_ok" ELSE "rec_ok"

FailPc == IF pc = "await_phase" THEN "phase_fail" ELSE "rec_fail"

\* runClaude's restart in the close handler: the same args and input, a new
\* subprocess with a new timeout; its result settles the promise of the
\* call it restarts
Restart(pr) == NewProc(pr.handler, pr.args, pr.input, pr.settled, pr.awaited, FALSE)

\* p.on('close'): the timeout is cleared and currentClaudeProcess reset; with
\* the interrupt flag set the flag is cleared and the call restarted;
\* otherwise the call settles with the outcome, the handler that awaits it
\* continues, and the race of its operation settles if it is still awaited
Close(p, outcome, turns) ==
    /\ EnvEnabled
    /\ NoTwinDue
    /\ procs[p].st = "live"
    /\ outcome \in ExitOutcomes(procs[p].sig)
    /\ turns \in TurnsFor(procs[p].handler, outcome)
    /\ LET pr      == procs[p]
           cleared == [procs EXCEPT ![p] = FreeProc]
       IN IF shouldInterruptForFeedback
          THEN /\ shouldInterruptForFeedback' = FALSE
               /\ interruptBy' = {}
               /\ procs' = [cleared EXCEPT ![FreeSlot(cleared)] = Restart(pr)]
               /\ currentClaudeProcess' = FreeSlot(cleared)
               /\ UNCHANGED <<sessionVars, engineVars, rmVars, unserved>>
          ELSE /\ procs' = cleared
               /\ currentClaudeProcess' = 0
               /\ UNCHANGED <<shouldInterruptForFeedback, interruptBy>>
               /\ unserved' = IF ~pr.settled /\ pr.awaited /\ outcome # "ok"
                              THEN unserved \cup Range(pr.input.feedback)
                              ELSE unserved
               /\ IF pr.settled
                  THEN UNCHANGED <<sessionVars, engineVars, rmVars>>
                  ELSE /\ phase' = IF outcome = "ok" THEN NextPhase(pr.handler, turns, phase)
                                   ELSE phase
                       /\ sessionId' = IF outcome = "ok"
                                       THEN NextSessionId(pr.handler, turns, sessionId)
                                       ELSE sessionId
                       /\ UNCHANGED iteration
                       /\ IF pr.awaited
                          THEN /\ SettleOperation(IF outcome = "ok" THEN OkPc ELSE FailPc,
                                                  IF outcome = "ok" THEN errClass ELSE outcome)
                               /\ UNCHANGED <<opId, opForced, retries, recFrom>>
                          ELSE UNCHANGED <<engineVars, rmVars>>
    /\ UNCHANGED <<fbVars, auditVars, harnessVars, quietVars>>

\* runClaude's timeout: the subprocess is killed with SIGKILL and the call
\* rejected.  The timer of the awaited race was set before the timer of its
\* own call, so it fires first when both are due.
RunTimeout(p) ==
    /\ EnvEnabled
    /\ procs[p].st = "live"
    /\ procs[p].timer = 0
    /\ ~(procs[p].awaited /\ rmTimer = 0)
    /\ NoTwinDue \/ TwinDue(p)
    /\ procs' = [procs EXCEPT ![p] = [Forget(procs[p]) EXCEPT
                                         !.sig = "kill", !.timer = -1, !.settled = TRUE,
                                         !.awaited = FALSE, !.handler = "none"]]
    /\ IF procs[p].awaited /\ ~procs[p].settled
       THEN /\ SettleOperation(FailPc, "fail")
            /\ unserved' = unserved \cup Range(procs[p].input.feedback)
            /\ UNCHANGED <<opId, opForced, retries, recFrom>>
       ELSE UNCHANGED <<engineVars, rmVars, unserved>>
    /\ UNCHANGED <<sessionVars, currentClaudeProcess, shouldInterruptForFeedback,
                   interruptBy, fbVars, auditVars, harnessVars, quietVars>>

\* executeOperation's timeout: the race is rejected and the id unregistered;
\* the operation, its handler and its subprocess go on
OperationTimeout ==
    /\ Awaiting
    /\ rmTimer = 0
    /\ SettleOperation(FailPc, "fail")
    /\ procs' = [p \in ProcIds |->
                    IF procs[p].awaited THEN [Forget(procs[p]) EXCEPT !.awaited = FALSE]
                    ELSE procs[p]]
    /\ unserved' = unserved \cup UNION {Range(procs[p].input.feedback) :
                                            p \in {q \in ProcIds : procs[q].awaited}}
    /\ UNCHANGED <<sessionVars, opId, opForced, retries, recFrom, currentClaudeProcess,
                   shouldInterruptForFeedback, interruptBy, fbVars, auditVars, harnessVars, quietVars>>

\* one tick passes: no timer is due, and a subprocess killed with SIGKILL
\* has closed
Tick ==
    /\ EnvEnabled
    /\ \E p \in ProcIds : procs[p].st = "live"
    /\ \A p \in ProcIds : procs[p].st = "live" => procs[p].timer # 0 /\ procs[p].sig # "kill"
    /\ rmTimer # 0
    /\ cleanupTimer # 0
    /\ procs' = [p \in ProcIds |->
                    IF procs[p].timer > 0 THEN [procs[p] EXCEPT !.timer = @ - 1] ELSE procs[p]]
    /\ rmTimer' = IF rmTimer > 0 THEN rmTimer - 1 ELSE rmTimer
    /\ cleanupTimer' = IF cleanupTimer > 0 THEN cleanupTimer - 1 ELSE cleanupTimer
    /\ UNCHANGED <<sessionVars, engineVars, activeOperations, currentClaudeProcess,
                   shouldInterruptForFeedback, interruptBy, unserved, fbVars, auditVars,
                   harnessVars, opStart, isShuttingDown, signals, shutdowns, restarts, metrics>>

-----------------------------------------------------------------------------
(* The feedback handler registered by setupDiscordIfEnabled *)

\* a feedback message arrives: it is enqueued, and the handler awaits the
\* sending of the acknowledgement
FeedbackArrive ==
    /\ EnvEnabled
    /\ NoTwinDue
    /\ nextFb < MaxFeedback
    /\ nextFb' = nextFb + 1
    /\ queue' = enqueue(queue, nextFb + 1)
    /\ acking' = acking \cup {nextFb + 1}
    /\ UNCHANGED <<sessionVars, engineVars, rmVars, procVars, auditVars, harnessVars, quietVars>>

\* the handler continues: it sets the interrupt flag and sends SIGTERM to
\* currentClaudeProcess if there is one
FeedbackInterrupt(f) ==
    /\ EnvEnabled
    /\ NoTwinDue
    /\ f \in acking
    /\ acking' = acking \ {f}
    /\ shouldInterruptForFeedback' = TRUE
    /\ interruptBy' = interruptBy \cup {f}
    /\ procs' = IF currentClaudeProcess # 0 /\ procs[currentClaudeProcess].sig = "none"
                THEN [procs EXCEPT ![currentClaudeProcess].sig = "term"]
                ELSE procs
    /\ UNCHANGED <<sessionVars, engineVars, rmVars, currentClaudeProcess, unserved, queue,
                   nextFb, auditVars, harnessVars, quietVars>>

-----------------------------------------------------------------------------
(* The orchestrator *)

\* the phase engine
Engine ==
    \/ RunStart
    \/ LoopIterate
    \/ LoopExit
    \/ PhaseSucceeded
    \/ PhaseFailed
    \/ WakeRateLimit
    \/ RecoveryLoop
    \/ RecoverySucceeded
    \/ RecoveryFailed
    \/ WakeRecovery
    \/ RunAborts

\* the subprocesses and the timers
Runner ==
    \/ \E p \in ProcIds, outcome \in Outcomes, turns \in Turns : Close(p, outcome, turns)
    \/ \E p \in ProcIds : RunTimeout(p)
    \/ OperationTimeout
    \/ Tick

Next ==
    \/ Engine
    \/ Runner
    \/ FeedbackArrive
    \/ \E f \in 1..MaxFeedback : FeedbackInterrupt(f)

Spec == Init /\ [][Next]_vars

-----------------------------------------------------------------------------
(* SpecSD: the orchestrator with shutdown signals (SIGINT, SIGTERM), run   *)
(* without DISCORD_BOT_TOKEN: no feedback handler is registered.           *)

\* the bounded wait of ResourceManager.cleanup (30 s), in ticks
maxWaitTime == 1
\* the shutdown signals received in a run
MaxSignals == 2

\* the process is alive and the event loop takes the next event
ProcessWaits == EnvEnabled \/ pc = "done"

shutdownOther == <<sessionVars, opId, opForced, errClass, retries, recFrom, rmVars, procVars,
                   fbVars, errors, attempts, rlAttempts, nonRateFailure, opStart, restarts,
                   metrics,
                   harnessVars>>

\* the shutdown handler after cleanup has returned: the session is saved, a
\* 'shutdown' checkpoint written, and the process exits with status 0
ShutdownCompletes ==
    /\ saved' = <<saveSessionState(phase, iteration, sessionId, errors, metrics)>>
    /\ lastCheckpoint' = <<"shutdown", "shutdown">>
    /\ shutdowns' = shutdowns + 1
    /\ exitCode' = 0
    /\ pc' = "exited"
    /\ cleanupTimer' = -1

SignalRestartsCleanup ==
    /\ ProcessWaits
    /\ NoTwinDue
    /\ signals < MaxSignals
    /\ signals' = signals + 1
    /\ isShuttingDown' = TRUE
    /\ IF activeOperations = {}
       THEN ShutdownCompletes
       ELSE /\ cleanupTimer' = maxWaitTime
            /\ UNCHANGED <<pc, saved, lastCheckpoint, exitCode, shutdowns>>
    /\ UNCHANGED shutdownOther

\* a shutdown signal: the handler returns at once if a shutdown is under
\* way; otherwise it sets isShuttingDown and awaits cleanup, which returns
\* without waiting if no operation is in flight
Signal ==
    /\ ProcessWaits
    /\ NoTwinDue
    /\ signals < MaxSignals
    /\ signals' = signals + 1
    /\ IF isShuttingDown
       THEN UNCHANGED <<pc, saved, lastCheckpoint, exitCode, isShuttingDown, cleanupTimer,
                        shutdowns>>
       ELSE /\ isShuttingDown' = TRUE
            /\ IF activeOperations = {}
               THEN ShutdownCompletes
               ELSE /\ cleanupTimer' = maxWaitTime
                    /\ UNCHANGED <<pc, saved, lastCheckpoint, exitCode, shutdowns>>
    /\ UNCHANGED shutdownOther

CleanupReturnsEarly ==
    /\ ProcessWaits
    /\ cleanupTimer >= 0
    /\ ShutdownCompletes
    /\ UNCHANGED <<isShuttingDown, signals, shutdownOther>>

\* cleanup polls once a second: it returns when no operation is in flight
\* or when the bounded wait has elapsed, and the shutdown handler continues
CleanupReturns ==
    /\ ProcessWaits
    /\ cleanupTimer >= 0
    /\ activeOperations = {} \/ cleanupTimer = 0
    /\ ShutdownCompletes
    /\ UNCHANGED <<isShuttingDown, signals, shutdownOther>>

\* executeAutonomousLoop: the while guard fails because the process is
\* shutting down; below the iteration cap the function returns and run()
\* ends
LoopStops ==
    /\ pc = "loop"
    /\ iteration < maxIterations
    /\ isShuttingDown
    /\ pc' = "done"
    /\ UNCHANGED <<sessionVars, opId, opForced, errClass, retries, recFrom, rmVars,
                   procVars, fbVars, auditVars, harnessVars, quietVars>>

NextSD ==
    \/ Engine
    \/ Runner
    \/ Signal
    \/ CleanupReturns
    \/ LoopStops

SpecSD == Init /\ [][NextSD]_vars

-----------------------------------------------------------------------------
(* SpecResume: the orchestrator of SpecSD, started with or without a        *)
(* session file in the project directory, stopped at any point and started  *)
(* again.                                                                   *)

\* the times the process is stopped and started again
MaxRestarts == 1

\* the session files the first process may find: none, or one that holds
\* the phase 'error' of the SessionState type, which saveSessionState never
\* writes; the files it writes the later processes find
FirstFiles ==
    {<<>>} \cup {<<saveSessionState("error", it, 0, <<>>, ZeroMetrics)>> : it \in 0..1}

InitResume ==
    /\ saved \in FirstFiles
    /\ phase = loadSessionState(saved).phase
    /\ iteration = loadSessionState(saved).iteration
    /\ sessionId = loadSessionState(saved).sessionId
    /\ errors = loadSessionState(saved).errors
    /\ metrics = loadSessionState(saved).metrics
    /\ pc = "setup"
    /\ opId = <<"none", 0>>
    /\ opForced = FALSE
    /\ errClass = "none"
    /\ retries = 0
    /\ recFrom = "catch"
    /\ activeOperations = {}
    /\ rmTimer = -1
    /\ procs = [p \in ProcIds |-> FreeProc]
    /\ currentClaudeProcess = 0
    /\ shouldInterruptForFeedback = FALSE
    /\ queue = <<>>
    /\ nextFb = 0
    /\ acking = {}
    /\ interruptBy = {}
    /\ unserved = {}
    /\ lastCheckpoint = <<"none", "none">>
    /\ exitCode = -1
    /\ attempts = 0
    /\ rlAttempts = 0
    /\ nonRateFailure = FALSE
    /\ opStart = [phase |-> "planning", iteration |-> 0]
    /\ isShuttingDown = FALSE
    /\ cleanupTimer = -1
    /\ signals = 0
    /\ shutdowns = 0
    /\ restarts = 0
    /\ calls = <<>>
    /\ drained = <<>>
    /\ exitStatus = 0
    /\ stdout = <<>>
    /\ runResult = "none"
    /\ checkpoints = {}
    /\ clock = 0
    /\ written = 0
    /\ stalls = 0
    /\ sessionFile = <<>>
    /\ loaded = <<>>

ProcessRestartsFresh ==
    /\ restarts < MaxRestarts
    /\ restarts' = restarts + 1
    /\ phase' = "planning"
    /\ iteration' = 0
    /\ sessionId' = 0
    /\ errors' = <<>>
    /\ metrics' = ZeroMetrics
    /\ pc' = "setup"
    /\ opId' = <<"none", 0>>
    /\ opForced' = FALSE
    /\ errClass' = "none"
    /\ retries' = 0
    /\ recFrom' = "catch"
    /\ activeOperations' = {}
    /\ rmTimer' = -1
    /\ procs' = [p \in ProcIds |-> FreeProc]
    /\ currentClaudeProcess' = 0
    /\ shouldInterruptForFeedback' = FALSE
    /\ interruptBy' = {}
    /\ unserved' = {}
    /\ exitCode' = -1
    /\ attempts' = 0
    /\ rlAttempts' = 0
    /\ nonRateFailure' = FALSE
    /\ opStart' = [phase |-> "planning", iteration |-> 0]
    /\ isShuttingDown' = FALSE
    /\ cleanupTimer' = -1
    /\ UNCHANGED <<fbVars, saved, lastCheckpoint, signals, shutdowns, harnessVars>>

\* the process stops, wherever it is, and a new one is started: the
\* constructor loads the session file and everything else starts afresh;
\* the files stay
ProcessRestarts ==
    /\ restarts < MaxRestarts
    /\ restarts' = restarts + 1
    /\ phase' = loadSessionState(saved).phase
    /\ iteration' = loadSessionState(saved).iteration
    /\ sessionId' = loadSessionState(saved).sessionId
    /\ errors' = loadSessionState(saved).errors
    /\ metrics' = loadSessionState(saved).metrics
    /\ pc' = "setup"
    /\ opId' = <<"none", 0>>
    /\ opForced' = FALSE
    /\ errClass' = "none"
    /\ retries' = 0
    /\ recFrom' = "catch"
    /\ activeOperations' = {}
    /\ rmTimer' = -1
    /\ procs' = [p \in ProcIds |-> FreeProc]
    /\ currentClaudeProcess' = 0
    /\ shouldInterruptForFeedback' = FALSE
    /\ interruptBy' = {}
    /\ unserved' = {}
    /\ exitCode' = -1
    /\ attempts' = 0
    /\ rlAttempts' = 0
    /\ nonRateFailure' = FALSE
    /\ opStart' = [phase |-> "planning", iteration |-> 0]
    /\ isShuttingDown' = FALSE
    /\ cleanupTimer' = -1
    /\ UNCHANGED <<fbVars, saved, lastCheckpoint, signals, shutdowns, harnessVars>>

NextResume ==
    \/ NextSD
    \/ ProcessRestarts

SpecResume == InitResume /\ [][NextResume]_vars

-----------------------------------------------------------------------------
(* SpecLive: the orchestrator run without DISCORD_BOT_TOKEN, with no bound  *)
(* on the operations of a run.  errors and metrics are written and never    *)
(* read by a branch of the program: the model starts them again when errors *)
(* holds MaxErrors entries.  Every step of the engine that can be taken is  *)
(* taken, every subprocess exits or is killed, and time passes.             *)

AuditFull == Len(errors) >= MaxErrors

\* the model starts errors and metrics again
ForgetAudit ==
    /\ AuditFull
    /\ errors' = <<>>
    /\ metrics' = ZeroMetrics
    /\ UNCHANGED <<sessionVars, engineVars, rmVars, procVars, fbVars, saved, lastCheckpoint,
                   exitCode, attempts, rlAttempts, nonRateFailure, opStart, shutdownVars,
                   restarts, harnessVars>>

Exits(p) == \E outcome \in Outcomes, turns \in Turns : Close(p, outcome, turns)

NextLive ==
    \/ ~AuditFull /\ Engine
    \/ Runner
    \/ ForgetAudit

SpecLive ==
    /\ Init
    /\ [][NextLive]_vars
    /\ WF_vars(~AuditFull /\ Engine)
    /\ WF_vars(ForgetAudit)
    /\ WF_vars(OperationTimeout)
    /\ WF_vars(Tick)
    /\ \A p \in ProcIds : WF_vars(Exits(p)) /\ WF_vars(RunTimeout(p))

-----------------------------------------------------------------------------
(* SpecRM: ResourceManager.executeOperation driven by arbitrary callers.    *)
(* Call c runs executeOperation with the operation id <<"op", c>>, a        *)
(* timeout and an operation that settles after some time, with a value or   *)
(* an error; shorter records that the timeout is shorter than that time.    *)

CallIds == 1..(maxConcurrentOps + 1)

IdleCall == [st |-> "idle", timer |-> -1, work |-> -1, outcome |-> "none",
             result |-> "none", invoked |-> FALSE, shorter |-> FALSE]

OperationId(c) == <<"op", c>>

InitRM ==
    /\ phase = "planning"
    /\ iteration = 0
    /\ sessionId = 0
    /\ pc = "harness"
    /\ opId = <<"none", 0>>
    /\ opForced = FALSE
    /\ errClass = "none"
    /\ retries = 0
    /\ recFrom = "catch"
    /\ activeOperations = {}
    /\ rmTimer = -1
    /\ procs = [p \in ProcIds |-> FreeProc]
    /\ currentClaudeProcess = 0
    /\ shouldInterruptForFeedback = FALSE
    /\ queue = <<>>
    /\ nextFb = 0
    /\ acking = {}
    /\ interruptBy = {}
    /\ unserved = {}
    /\ errors = <<>>
    /\ saved = <<>>
    /\ lastCheckpoint = <<"none", "none">>
    /\ exitCode = -1
    /\ attempts = 0
    /\ rlAttempts = 0
    /\ nonRateFailure = FALSE
    /\ opStart = [phase |-> "planning", iteration |-> 0]
    /\ isShuttingDown = FALSE
    /\ cleanupTimer = -1
    /\ signals = 0
    /\ shutdowns = 0
    /\ restarts = 0
    /\ metrics = ZeroMetrics
    /\ calls = [c \in CallIds |-> IdleCall]
    /\ drained = <<>>
    /\ exitStatus = 0
    /\ stdout = <<>>
    /\ runResult = "none"
    /\ checkpoints = {}
    /\ clock = 0
    /\ written = 0
    /\ stalls = 0
    /\ sessionFile = <<>>
    /\ loaded = <<>>

rmOther == <<sessionVars, engineVars, rmTimer, procVars, fbVars, auditVars, drained, quietVars, outVars, cpVars, loadVars>>

\* executeOperation up to its await: at capacity it throws before the
\* operation is called; otherwise the id is registered, the timer set and
\* the operation called
RMExecute(c, timeout, duration, outcome) ==
    /\ calls[c].st = "idle"
    /\ IF RMFull(activeOperations)
       THEN /\ calls' = [calls EXCEPT ![c] = [IdleCall EXCEPT !.st = "settled",
                                                             !.result = "rejected"]]
            /\ UNCHANGED activeOperations
       ELSE /\ activeOperations' = RMAdd(activeOperations, OperationId(c))
            /\ calls' = [calls EXCEPT ![c] =
                            [st |-> "running", timer |-> timeout, work |-> duration,
                             outcome |-> outcome, result |-> "none", invoked |-> TRUE,
                             shorter |-> timeout < duration]]
    /\ UNCHANGED rmOther

RMOperationSettlesLeak(c) ==
    /\ calls[c].st \in {"running", "timedout"}
    /\ calls[c].work = 0
    /\ IF calls[c].st = "running"
       THEN /\ calls' = [calls EXCEPT ![c].st = "settled", ![c].result = calls[c].outcome,
                                      ![c].work = -1, ![c].timer = -1]
            /\ activeOperations' = IF calls[c].outcome = "value"
                                   THEN RMDelete(activeOperations, OperationId(c))
                                   ELSE activeOperations
       ELSE /\ calls' = [calls EXCEPT ![c].st = "settled", ![c].work = -1]
            /\ UNCHANGED activeOperations
    /\ UNCHANGED rmOther

\* the operation settles: if the race is still open the call settles with
\* the operation's value or error and the finally block unregisters the id
RMOperationSettles(c) ==
    /\ calls[c].st \in {"running", "timedout"}
    /\ calls[c].work = 0
    /\ IF calls[c].st = "running"
       THEN /\ calls' = [calls EXCEPT ![c].st = "settled", ![c].result = calls[c].outcome,
                                      ![c].work = -1, ![c].timer = -1]
            /\ activeOperations' = RMDelete(activeOperations, OperationId(c))
       ELSE /\ calls' = [calls EXCEPT ![c].st = "settled", ![c].work = -1]
            /\ UNCHANGED activeOperations
    /\ UNCHANGED rmOther

RMTimeoutIgnored(c) ==
    /\ calls[c].st = "running"
    /\ calls[c].timer = 0
    /\ calls' = [calls EXCEPT ![c].timer = -1]
    /\ UNCHANGED <<activeOperations, rmOther>>

\* the timer of the race fires first: the call settles as timed out and the
\* finally block unregisters the id; the operation goes on
RMTimeout(c) ==
    /\ calls[c].st = "running"
    /\ calls[c].timer = 0
    /\ calls' = [calls EXCEPT ![c].st = "timedout", ![c].result = "timeout", ![c].timer = -1]
    /\ activeOperations' = RMDelete(activeOperations, OperationId(c))
    /\ UNCHANGED rmOther

\* one tick passes: nothing is due
RMTick ==
    /\ \E c \in CallIds : calls[c].st \in {"running", "timedout"}
    /\ \A c \in CallIds : calls[c].timer # 0 /\ calls[c].work # 0
    /\ calls' = [c \in CallIds |->
                    [calls[c] EXCEPT !.timer = IF @ > 0 THEN @ - 1 ELSE @,
                                     !.work  = IF @ > 0 THEN @ - 1 ELSE @]]
    /\ UNCHANGED <<activeOperations, rmOther>>

NextRM ==
    \/ \E c \in CallIds, timeout \in 1..MaxTimeout, duration \in 0..MaxDuration,
          outcome \in {"value", "error"} : RMExecute(c, timeout, duration, outcome)
    \/ \E c \in CallIds : RMOperationSettles(c)
    \/ \E c \in CallIds : RMTimeout(c)
    \/ RMTick

SpecRM == InitRM /\ [][NextRM]_vars

-----------------------------------------------------------------------------
(* SpecFB: FeedbackStore driven by arbitrary callers.  Item i is the i-th   *)
(* item enqueued.                                                           *)

InitFB ==
    /\ phase = "planning"
    /\ iteration = 0
    /\ sessionId = 0
    /\ pc = "harness"
    /\ opId = <<"none", 0>>
    /\ opForced = FALSE
    /\ errClass = "none"
    /\ retries = 0
    /\ recFrom = "catch"
    /\ activeOperations = {}
    /\ rmTimer = -1
    /\ procs = [p \in ProcIds |-> FreeProc]
    /\ currentClaudeProcess = 0
    /\ shouldInterruptForFeedback = FALSE
    /\ queue = <<>>
    /\ nextFb = 0
    /\ acking = {}
    /\ interruptBy = {}
    /\ unserved = {}
    /\ errors = <<>>
    /\ saved = <<>>
    /\ lastCheckpoint = <<"none", "none">>
    /\ exitCode = -1
    /\ attempts = 0
    /\ rlAttempts = 0
    /\ nonRateFailure = FALSE
    /\ opStart = [phase |-> "planning", iteration |-> 0]
    /\ isShuttingDown = FALSE
    /\ cleanupTimer = -1
    /\ signals = 0
    /\ shutdowns = 0
    /\ restarts = 0
    /\ metrics = ZeroMetrics
    /\ calls = <<>>
    /\ drained = <<>>
    /\ exitStatus = 0
    /\ stdout = <<>>
    /\ runResult = "none"
    /\ checkpoints = {}
    /\ clock = 0
    /\ written = 0
    /\ stalls = 0
    /\ sessionFile = <<>>
    /\ loaded = <<>>

fbOther == <<sessionVars, engineVars, rmVars, procVars, acking, auditVars, calls, quietVars, outVars, cpVars, loadVars>>

FBEnqueue ==
    /\ nextFb < MaxItems
    /\ nextFb' = nextFb + 1
    /\ queue' = enqueue(queue, nextFb + 1)
    /\ UNCHANGED <<drained, fbOther>>

FBDequeueAll ==
    /\ Len(drained) < MaxDrains
    /\ drained' = Append(drained, dequeueAll(queue).items)
    /\ queue' = dequeueAll(queue).queue
    /\ UNCHANGED <<nextFb, fbOther>>

NextFB ==
    \/ FBEnqueue
    \/ FBDequeueAll

SpecFB == InitFB /\ [][NextFB]_vars

-----------------------------------------------------------------------------
(* SpecOut: the close handler of runClaude and the continuation of a phase  *)
(* handler, for a subprocess that was not interrupted, given its exit code  *)
(* and its output.  A text is a sequence of characters.                     *)

\* the output lines a subprocess writes at most
MaxLines == 3

\* String.prototype.toLowerCase, on the characters the texts below use
toLowerCase(text) ==
    [i \in 1..Len(text) |->
        CASE text[i] = "A" -> "a"
          [] text[i] = "C" -> "c"
          [] text[i] = "E" -> "e"
          [] text[i] = "F" -> "f"
          [] text[i] = "I" -> "i"
          [] text[i] = "L" -> "l"
          [] OTHER -> text[i]]

\* String.prototype.includes
includes(text, part) ==
    \E i \in 0..(Len(text) - Len(part)) : SubSeq(text, i + 1, i + Len(part)) = part

\* Array.prototype.join(' ') of the result texts; a turn without a result
\* counts as the empty text
RECURSIVE join(_)
join(texts) ==
    IF texts = <<>> THEN <<>>
    ELSE IF Len(texts) = 1 THEN texts[1]
    ELSE texts[1] \o <<" ">> \o join(Tail(texts))

FailureWords == {<<"f", "a", "i", "l">>,
                 <<"e", "r", "r", "o", "r">>,
                 <<"c", "r", "i", "t", "i", "c", "a", "l">>}

hasFailuresCaseSensitive(turns) ==
    \E word \in FailureWords :
        includes(join([i \in 1..Len(turns) |-> turns[i].result]), word)

\* executeTestingPhase: the result texts joined by a space, in lower case,
\* include 'fail', 'error' or 'critical'
hasFailures(turns) ==
    \E word \in FailureWords :
        includes(toLowerCase(join([i \in 1..Len(turns) |-> turns[i].result])), word)

\* executePlanningPhase: turns.find(t => t.session_id), 0 if there is none
sessionTurn(turns) ==
    IF \E i \in 1..Len(turns) : turns[i].session_id # 0
    THEN turns[CHOOSE i \in 1..Len(turns) :
                  /\ turns[i].session_id # 0
                  /\ \A j \in 1..Len(turns) : turns[j].session_id # 0 => i <= j].session_id
    ELSE 0

\* what the handlers read in a sequence of turns
Read(turns) == [session_id |-> sessionTurn(turns), hasFailures |-> hasFailures(turns)]

\* the result texts of the turns of the harness: none, "pass", "FAIL", "fa",
\* "il", "Error", "critical", "no fails"
ResultTexts == {<<>>,
                <<"p", "a", "s", "s">>,
                <<"F", "A", "I", "L">>,
                <<"f", "a">>,
                <<"i", "l">>,
                <<"E", "r", "r", "o", "r">>,
                <<"c", "r", "i", "t", "i", "c", "a", "l">>,
                <<"n", "o", " ", "f", "a", "i", "l", "s">>}

\* the turns of the harness: a turn carries a session id or a result text
OutTurns == {[session_id |-> id, result |-> <<>>] : id \in 1..2}
            \cup {[session_id |-> 0, result |-> text] : text \in ResultTexts}

\* an output line: blank, a JSON value (a turn), or text JSON.parse rejects
OutLines == {[kind |-> "blank", turn |-> [session_id |-> 0, result |-> <<>>]],
             [kind |-> "bad", turn |-> [session_id |-> 0, result |-> <<>>]]}
            \cup {[kind |-> "json", turn |-> t] : t \in OutTurns}

SeqsUpTo(S, n) == UNION {[1..k -> S] : k \in 0..n}

IsBlank(line) == line.kind = "blank"

NotBlank(line) == ~IsBlank(line)

runCloseLenient(code, lines) ==
    LET IsJson(line) == line.kind = "json"
        parsed == SelectSeq(lines, IsJson)
    IN IF code # 0 THEN [ok |-> FALSE, turns |-> <<>>]
       ELSE IF SelectSeq(lines, NotBlank) = <<>> THEN [ok |-> FALSE, turns |-> <<>>]
       ELSE [ok |-> TRUE, turns |-> [i \in 1..Len(parsed) |-> parsed[i].turn]]

\* the close handler of runClaude, shouldInterruptForFeedback not set: a
\* code other than 0 rejects; the output is trimmed, split at newlines and
\* the blank lines dropped; no line left rejects, and so does a line
\* JSON.parse throws on; otherwise the call resolves with the parsed lines
runClose(code, lines) ==
    LET kept == SelectSeq(lines, NotBlank)
    IN IF code # 0 THEN [ok |-> FALSE, turns |-> <<>>]
       ELSE IF kept = <<>> THEN [ok |-> FALSE, turns |-> <<>>]
       ELSE IF \E i \in 1..Len(kept) : kept[i].kind = "bad" THEN [ok |-> FALSE, turns |-> <<>>]
       ELSE [ok |-> TRUE, turns |-> [i \in 1..Len(kept) |-> kept[i].turn]]

\* the orchestrator's variables in the harnesses that do not use them
IdleOrchestrator ==
    /\ iteration = 0
    /\ opForced = FALSE
    /\ errClass = "none"
    /\ retries = 0
    /\ recFrom = "catch"
    /\ activeOperations = {}
    /\ rmTimer = -1
    /\ procs = [p \in ProcIds |-> FreeProc]
    /\ currentClaudeProcess = 0
    /\ shouldInterruptForFeedback = FALSE
    /\ queue = <<>>
    /\ nextFb = 0
    /\ acking = {}
    /\ interruptBy = {}
    /\ unserved = {}
    /\ errors = <<>>
    /\ saved = <<>>
    /\ lastCheckpoint = <<"none", "none">>
    /\ exitCode = -1
    /\ attempts = 0
    /\ rlAttempts = 0
    /\ nonRateFailure = FALSE
    /\ opStart = [phase |-> "planning", iteration |-> 0]
    /\ isShuttingDown = FALSE
    /\ cleanupTimer = -1
    /\ signals = 0
    /\ shutdowns = 0
    /\ restarts = 0
    /\ metrics = ZeroMetrics
    /\ calls = <<>>
    /\ drained = <<>>

\* a handler has called runClaude in its phase, with or without a session
\* id from an earlier planning; the subprocess has written its output and
\* exits with code 0, with code 1, or on a signal (-1: no code)
InitOut ==
    /\ IdleOrchestrator
    /\ phase \in {"planning", "implementation", "testing"}
    /\ opId = <<phase, 0>>
    /\ sessionId \in {0, 3}
    /\ pc = "out_close"
    /\ exitStatus \in {0, 1, -1}
    /\ stdout \in SeqsUpTo(OutLines, MaxLines)
    /\ runResult = "none"
    /\ checkpoints = {}
    /\ clock = 0
    /\ written = 0
    /\ stalls = 0
    /\ sessionFile = <<>>
    /\ loaded = <<>>

outOther == <<iteration, opId, opForced, errClass, retries, recFrom, rmVars, procVars,
              fbVars, auditVars, quietVars, calls, drained, exitStatus, stdout, cpVars, loadVars>>

\* p.on('close'): the runClaude call settles
OutClose ==
    /\ pc = "out_close"
    /\ pc' = "out_handler"
    /\ runResult' = runClose(exitStatus, stdout)
    /\ UNCHANGED <<phase, sessionId, outOther>>

\* the handler continues after its await: with turns it assigns sessionId
\* and phase, with an error it throws
OutHandler ==
    /\ pc = "out_handler"
    /\ pc' = "out_done"
    /\ IF runResult.ok
       THEN /\ phase' = NextPhase(opId[1], Read(runResult.turns), phase)
            /\ sessionId' = NextSessionId(opId[1], Read(runResult.turns), sessionId)
       ELSE UNCHANGED <<phase, sessionId>>
    /\ UNCHANGED <<runResult, outOther>>

NextOut ==
    \/ OutClose
    \/ OutHandler

SpecOut == InitOut /\ [][NextOut]_vars

-----------------------------------------------------------------------------
(* SpecCP: createCheckpoint driven by arbitrary callers.  A checkpoint file *)
(* is named after Date.now() and the status, and its modification time is  *)
(* the time of the write.                                                   *)

\* the checkpoints cleanupOldCheckpoints keeps
KeepCheckpoints == 10
\* the createCheckpoint calls made
MaxWrites == 12
\* the calls made in the same millisecond as the call before
MaxStalls == 1

Statuses == {"success", "error"}

Min(a, b) == IF a < b THEN a ELSE b

cleanupOldest(files) ==
    {keep \in SUBSET files :
        /\ Cardinality(keep) = Min(Cardinality(files), KeepCheckpoints)
        /\ \A f \in keep, g \in files \ keep : f.time <= g.time}

\* cleanupOldCheckpoints: the files sorted by modification time, latest
\* first, and all but the first KeepCheckpoints deleted; files of the same
\* time are in the order readdirSync lists them, which is any
cleanupOldCheckpoints(files) ==
    {keep \in SUBSET files :
        /\ Cardinality(keep) = Min(Cardinality(files), KeepCheckpoints)
        /\ \A f \in keep, g \in files \ keep : f.time >= g.time}

InitCP ==
    /\ IdleOrchestrator
    /\ phase = "planning"
    /\ sessionId = 0
    /\ opId = <<"none", 0>>
    /\ pc = "harness"
    /\ exitStatus = 0
    /\ stdout = <<>>
    /\ runResult = "none"
    /\ checkpoints = {}
    /\ clock = 0
    /\ written = 0
    /\ stalls = 0
    /\ sessionFile = <<>>
    /\ loaded = <<>>

cpOther == <<sessionVars, engineVars, rmVars, procVars, fbVars, auditVars, quietVars,
             calls, drained, outVars, loadVars>>

\* createCheckpoint(status), passed milliseconds after the call before: the
\* file is written, replacing a file of the same name, and
\* cleanupOldCheckpoints deletes the old ones
CPCreate(status, passed) ==
    /\ written < MaxWrites
    /\ passed = 0 => (written > 0 /\ stalls < MaxStalls)
    /\ clock' = clock + passed
    /\ written' = written + 1
    /\ stalls' = IF passed = 0 THEN stalls + 1 ELSE stalls
    /\ checkpoints' \in
          cleanupOldCheckpoints(checkpoints \cup {[time |-> clock + passed, status |-> status]})
    /\ UNCHANGED cpOther

NextCP == \E status \in Statuses, passed \in 0..1 : CPCreate(status, passed)

SpecCP == InitCP /\ [][NextCP]_vars

-----------------------------------------------------------------------------
(* SpecLoad: loadSessionState on a session file that parses and may lack    *)
(* fields, as a file written by another version of the program does.        *)

\* the fields of a session that have an initial value
SessionFields == {"phase", "iteration", "maxIterations", "startTime", "errors", "metrics"}

\* loadSessionState, the session it starts afresh: the configured
\* maxIterations, and the time of the start
initialState ==
    [phase |-> "planning", iteration |-> 0, maxIterations |-> maxIterations,
     startTime |-> "now", errors |-> <<>>, metrics |-> ZeroMetrics]

\* reading a field of an object: <<>> stands for undefined
Field(state, f) == IF f \in DOMAIN state THEN <<state[f]>> ELSE <<>>

\* sessions as an earlier process may have saved them
SavedSessions ==
    [phase : {"planning", "testing"},
     iteration : {0, 1},
     maxIterations : {maxIterations, maxIterations + 1},
     startTime : {"earlier"},
     errors : {<<>>, <<[phase |-> "testing", recovered |-> TRUE]>>},
     metrics : {ZeroMetrics,
                [totalOperations |-> 1, successfulOperations |-> 0, failedOperations |-> 1]}]

\* the fields named by D of a session
Only(state, D) == [f \in D |-> state[f]]

InitLoad ==
    /\ IdleOrchestrator
    /\ phase = "planning"
    /\ sessionId = 0
    /\ opId = <<"none", 0>>
    /\ pc = "harness"
    /\ exitStatus = 0
    /\ stdout = <<>>
    /\ runResult = "none"
    /\ checkpoints = {}
    /\ clock = 0
    /\ written = 0
    /\ stalls = 0
    /\ sessionFile \in {Only(state, D) : state \in SavedSessions, D \in SUBSET SessionFields}
    /\ loaded = <<>>

loadOther == <<sessionVars, engineVars, rmVars, procVars, fbVars, auditVars, quietVars,
               calls, drained, outVars, cpVars, sessionFile>>

\* the constructor calls loadSessionState, which finds the file
Load ==
    /\ loaded = <<>>
    /\ loaded' = <<restoreSession(sessionFile)>>
    /\ UNCHANGED loadOther

NextLoad == Load

SpecLoad == InitLoad /\ [][NextLoad]_vars

-----------------------------------------------------------------------------
(* Properties of ResourceManager.executeOperation (SpecRM) *)

Rejected == {c \in CallIds : calls[c].result = "rejected"}

\* C5: executeOperation fails without calling the operation and without
\* changing the in-flight set whenever the set already holds
\* maxConcurrentOps ids; the set never holds more than maxConcurrentOps ids;
\* and of maxConcurrentOps + 1 operations issued before any of them settles,
\* exactly one is rejected.
C5_CapacityRejects ==
    /\ [](Cardinality(activeOperations) <= maxConcurrentOps)
    /\ []((\A c \in CallIds : calls[c].st = "running" \/ c \in Rejected)
            => Cardinality(Rejected) = 1)
    /\ [][\A c \in CallIds :
            (calls[c].st = "idle" /\ calls'[c].st # "idle"
               /\ Cardinality(activeOperations) >= maxConcurrentOps)
            => (calls'[c].result = "rejected" /\ ~calls'[c].invoked
                  /\ activeOperations' = activeOperations)]_vars

\* all the calls are issued, none of the operations has settled, and one
\* call was rejected
C5_Witness ==
    /\ Cardinality(Rejected) = 1
    /\ \A c \in CallIds \ Rejected : calls[c].st = "running" /\ calls[c].invoked
    /\ Cardinality(activeOperations) = maxConcurrentOps

\* C6: the id of a call is in the in-flight set while the call is pending and
\* is not in it once the call has settled, whether the operation returned a
\* value, failed, or the timeout fired first.
C6_IdRemovedOnSettle ==
    \A c \in CallIds :
        /\ calls[c].st = "running" => OperationId(c) \in activeOperations
        /\ calls[c].st \in {"timedout", "settled"} => OperationId(c) \notin activeOperations

\* the three exit paths have been taken and the set is empty
C6_Witness ==
    /\ \E a, b, c \in CallIds :
          /\ calls[a].result = "value"
          /\ calls[b].result = "error"
          /\ calls[c].result = "timeout"
    /\ activeOperations = {}

\* C7: a call whose timeout is shorter than the time its operation takes
\* settles as timed out, never with the operation's own value or error, and
\* its id is then no longer in the in-flight set.
C7_ShortTimeoutWins ==
    \A c \in CallIds :
        (calls[c].invoked /\ calls[c].shorter) =>
            /\ calls[c].result \in {"none", "timeout"}
            /\ calls[c].result = "none" <=> calls[c].st = "running"
            /\ calls[c].result = "timeout" => OperationId(c) \notin activeOperations

\* such a call has timed out and its operation has finished afterwards
C7_Witness ==
    \E c \in CallIds :
        /\ calls[c].invoked /\ calls[c].shorter
        /\ calls[c].st = "settled" /\ calls[c].result = "timeout"

-----------------------------------------------------------------------------
(* Properties of the FeedbackStore (SpecFB) *)

RECURSIVE Concat(_)
Concat(batches) ==
    IF batches = <<>> THEN <<>> ELSE Head(batches) \o Concat(Tail(batches))

\* C10: the batches returned by the dequeueAll calls so far, joined, followed
\* by the queue, are the items enqueued so far, each once and in enqueue
\* order; a dequeueAll returns the whole queue and leaves it empty, so an
\* item is returned by the first dequeueAll after its enqueue and a
\* dequeueAll with nothing enqueued since the previous one returns nothing.
C10_DeliveredOnce ==
    /\ [](Concat(drained) \o queue = [i \in 1..nextFb |-> i])
    /\ [][drained' # drained => (drained' = Append(drained, queue) /\ queue' = <<>>)]_vars

\* a batch of two items, later an empty batch, and an item in the queue
C10_Witness ==
    /\ \E i, j \in 1..Len(drained) : i < j /\ Len(drained[i]) >= 2 /\ drained[j] = <<>>
    /\ queue # <<>>

-----------------------------------------------------------------------------
(* Properties of the orchestrator (Spec) *)


OkPcs == {"phase_ok", "rec_ok"}

FailPcs == {"phase_fail", "rec_fail"}

\* the edges of the phase state machine
DefinedEdge(from, to) ==
    \/ <<from, to>> \in {<<"planning", "implementation">>,
                         <<"implementation", "testing">>,
                         <<"testing", "critique">>,
                         <<"testing", "completion">>,
                         <<"critique", "implementation">>}
    \/ to = "error"
    \/ from = "error"
    \/ to = "completion" /\ iteration >= maxIterations

\* C1: every change of phase follows a defined edge: planning ->
\* implementation, implementation -> testing, testing -> critique,
\* testing -> completion, critique -> implementation, any -> error,
\* error -> the previous phase, and any -> completion at the iteration cap.
C1_PhaseEdges == [][phase' # phase => DefinedEdge(phase, phase')]_vars

\* C2: when the feedback handler interrupts, the subprocess of the awaited
\* call is sent a termination request; a restart runs with the arguments and
\* the prompt of the subprocess it replaces; and the exit of a subprocess
\* terminated for feedback never reaches the handler that awaits the call as
\* a failure.
C2_PreemptionRestarts ==
    [][/\ (acking' # acking /\ nextFb' = nextFb) =>
              \A p \in ProcIds :
                  (procs[p].st = "live" /\ procs[p].awaited) => procs'[p].sig # "none"
       /\ (shouldInterruptForFeedback /\ ~shouldInterruptForFeedback') =>
              \E p \in ProcIds :
                  /\ procs[p].st = "live"
                  /\ currentClaudeProcess' # 0
                  /\ procs'[currentClaudeProcess'].args = procs[p].args
                  /\ procs'[currentClaudeProcess'].input = procs[p].input
       /\ \A p \in ProcIds :
              (procs[p].st = "live" /\ procs[p].awaited /\ procs[p].sig = "term"
                 /\ procs'[p].st = "free")
              => pc' \notin FailPcs]_vars

\* C3: when a call is restarted for feedback, the prompt of the restarted
\* subprocess contains the feedback items whose arrival set the interrupt
\* flag.
C3_RestartHasFeedback ==
    [][(shouldInterruptForFeedback /\ ~shouldInterruptForFeedback'
          /\ procs'[currentClaudeProcess'].awaited)
       => interruptBy \subseteq Range(procs'[currentClaudeProcess'].input.feedback)]_vars

\* C4: a runClaude call settles with the result of a subprocess that was not
\* preempted: the close of a subprocess that was sent a termination request
\* for feedback never settles the awaited call, neither with turns nor with
\* a failure.
C4_SettlesUnpreempted ==
    [][\A p \in ProcIds :
          (procs[p].st = "live" /\ procs[p].awaited /\ procs[p].sig = "term"
             /\ procs'[p].st = "free")
          => pc' \notin (OkPcs \cup FailPcs)]_vars

\* a subprocess whose operation the ResourceManager settled as timed out,
\* that has not been killed and whose own timeout is not firing in the same
\* timers phase
TimedOutAlive(p) ==
    procs[p].st = "live" /\ ~procs[p].awaited /\ ~procs[p].settled /\ ~TwinDue(p)

\* C8: once an operation has been settled as timed out by the
\* ResourceManager and the engine has gone on to its next step, no
\* subprocess that the operation spawned is alive without having been
\* killed.
C8_TimedOutKilled ==
    (\E p \in ProcIds : TimedOutAlive(p)) => pc \in FailPcs

\* the subprocesses that are running: not sent SIGKILL, and not about to be
\* in the same timers phase
Alive(ps) == {p \in Live(ps) : ps[p].sig # "kill" /\ ~TwinDue(p)}

\* C9: at most one subprocess is alive and at most one operation is in flight.
C9_OneSubprocess ==
    /\ Cardinality(Alive(procs)) <= 1
    /\ Cardinality(activeOperations) <= 1

-----------------------------------------------------------------------------
(* Properties of the error-recovery policy and of the loop (Spec) *)

Unrecovered(errs) == {i \in 1..Len(errs) : ~errs[i].recovered}

\* C11: recoverFromError starts at most maxRetries recovery attempts; when an
\* attempt succeeds it returns true at once, and the last entry of errors is
\* then marked as recovered; it returns false only when maxRetries attempts
\* have been started and have all failed.
C11_RecoveryAttempts ==
    /\ [](attempts <= maxRetries)
    /\ [][pc = "rec_ok" =>
            (pc' = "loop" /\ (errors # <<>> => errors'[Len(errors')].recovered))]_vars
    /\ [][(pc = "rec_loop" /\ pc' = "aborted") =>
            (attempts = maxRetries /\ retries = maxRetries)]_vars

\* recoverFromError has returned true on its last attempt, after a failed
\* one, and the entry of the failure is marked
C11_Witness ==
    /\ pc = "loop"
    /\ attempts = maxRetries
    /\ errors # <<>>
    /\ errors[Len(errors)].recovered

\* C12: a recovery attempt that fails with a rate-limit error consumes no
\* retry: when recoverFromError reports failure, maxRetries attempts have
\* failed with an error that is not a rate limit.
C12_RateLimitKeepsRetries ==
    [][(pc = "rec_loop" /\ pc' = "aborted") => attempts - rlAttempts = maxRetries]_vars

\* C13: a failed phase operation whose output names a rate limit, in any
\* letter case, makes recoverFromError wait and return true without a
\* recovery attempt, and the loop then runs the phase operation again.
C13_AnyCaseRateLimit ==
    /\ [][(pc = "phase_fail" /\ ~opForced /\ errClass \in {"rate", "ratecase"}) =>
            (pc' = "rl_sleep" /\ attempts' = attempts)]_vars
    /\ [][pc = "rl_sleep" => pc' \in {"rl_sleep", "loop"}]_vars

\* C14: a run whose failures all name a rate limit never aborts with a
\* recovery failure.
C14_RateLimitNeverFatal ==
    (pc \in {"aborted", "exited"} /\ ~opForced) => nonRateFailure

\* C15: when recovery is exhausted after consecutive failures on the
\* implementation phase, none of them a rate limit, errors holds maxRetries
\* entries that are not recovered.
C15_ExhaustionRecordsFailures ==
    (/\ pc = "aborted" /\ ~opForced
     /\ rlAttempts = 0
     /\ errors[Len(errors)].phase = "implementation")
    => Cardinality(Unrecovered(errors)) = maxRetries

\* C15 as the code has it: only the failure of a phase operation adds an
\* entry to errors, one at a time; when maxRetries recovery attempts have
\* failed after it the run aborts with that entry last, not recovered,
\* and the failed recovery attempts have added none.
C15_ExhaustionKeepsOneEntry ==
    /\ [][Len(errors') # Len(errors) =>
            (pc = "phase_fail" /\ Len(errors') = Len(errors) + 1)]_vars
    /\ [][(pc = "rec_loop" /\ pc' = "aborted") =>
            (/\ attempts = maxRetries
             /\ errors' = errors
             /\ errors # <<>>
             /\ ~errors[Len(errors)].recovered)]_vars

C15_Witness ==
    /\ pc = "aborted" /\ ~opForced
    /\ rlAttempts = 0
    /\ attempts = maxRetries
    /\ errors # <<>>
    /\ errors[Len(errors)].phase = "implementation"
    /\ Cardinality(Unrecovered(errors)) = 1

\* C16: when recoverFromError has reported failure the run aborts: the next
\* step writes an 'error' checkpoint in run() and exits the process with
\* status 1, and no operation or subprocess is started from then on.
C16_PolicyFailureAborts ==
    /\ [](pc = "aborted" => ENABLED RunAborts)
    /\ [][pc = "aborted" =>
            (/\ pc' = "exited"
             /\ exitCode' = 1
             /\ lastCheckpoint' = <<"error", "run">>
             /\ procs' = procs
             /\ activeOperations' = activeOperations
             /\ attempts' = attempts)]_vars
    /\ [](pc = "exited" => (exitCode = 1 /\ lastCheckpoint = <<"error", "run">>))
    /\ [][pc = "exited" => UNCHANGED <<procs, activeOperations, attempts, pc>>]_vars

\* the process has exited after maxRetries failed recovery attempts
C16_Witness ==
    /\ pc = "exited"
    /\ ~opForced
    /\ attempts = maxRetries
    /\ exitCode = 1

\* C17: when the loop exits at the iteration cap, phase is set to completion
\* and one completion operation is started, after which no other operation
\* is started; when a completion operation succeeds, in the loop or after
\* it, the run ends and nothing more is started.
C17_ForcedCompletionOnce ==
    /\ [][(pc = "loop" /\ iteration >= maxIterations) =>
            (/\ phase' = "completion"
             /\ opForced'
             /\ opId' = <<"completion", 0>>
             /\ pc' = "await_phase"
             /\ activeOperations' = {<<"completion", 0>>})]_vars
    /\ [][opForced => (opForced' /\ activeOperations' \subseteq activeOperations
                         /\ pc' \notin {"loop", "rec_loop", "await_rec"})]_vars
    /\ [][(pc = "phase_ok" /\ opId[1] = "completion") => pc' = "done"]_vars
    /\ [][pc = "done" => UNCHANGED <<pc, activeOperations, procs>>]_vars

\* the run has ended after the forced completion pass
C17_Witness ==
    /\ pc = "done"
    /\ opForced
    /\ iteration = maxIterations
    /\ phase = "completion"

\* C18: 0 <= iteration <= maxIterations in every state, and a step leaves
\* iteration as it is or adds one to it.
C18_IterationBounded ==
    /\ [](0 <= iteration /\ iteration <= maxIterations)
    /\ [][iteration' = iteration \/ iteration' = iteration + 1]_vars

\* iteration has reached the cap
C18_Witness ==
    /\ iteration = maxIterations
    /\ pc = "loop"

\* C19: when a phase operation has succeeded, completion included, the next
\* step of the engine increments iteration, saves the session and writes a
\* 'success' checkpoint.
C19_SuccessIsPersisted ==
    [][pc = "phase_ok" =>
          (/\ iteration' = iteration + 1
           /\ saved' = <<saveSessionState(phase', iteration', sessionId', errors', metrics')>>
           /\ lastCheckpoint' = <<"success", "loop">>)]_vars

\* C20: every failure of a phase operation, the completion pass included, is
\* appended to errors and handed to recoverFromError, and the run aborts
\* only when recoverFromError has reported failure.
C20_FailuresAreRecovered ==
    /\ [][pc = "phase_fail" =>
            (Len(errors') = Len(errors) + 1 /\ pc' \in {"rl_sleep", "rec_loop"})]_vars
    /\ [][(pc # "aborted" /\ pc' = "aborted") => pc = "rec_loop"]_vars

\* C21: when a phase operation has failed and recoverFromError returns
\* true, phase and iteration are what they were when the loop dispatched the
\* failed operation, and the loop then dispatches the handler of the same
\* phase again.
C21_RecoveryKeepsPhase ==
    /\ [][(pc \in {"rec_ok", "rl_sleep"} /\ pc' = "loop") =>
            (phase' = opStart.phase /\ iteration' = opStart.iteration)]_vars
    /\ [][(pc = "loop" /\ iteration = opStart.iteration /\ iteration < maxIterations
            /\ errors # <<>> /\ pc' # pc)
           => opId'[1] = opStart.phase]_vars

\* the subprocesses spawned by the step for a new runClaude call
Spawned(ps, qs) == {p \in ProcIds : ps[p].st = "free" /\ qs[p].st = "live"}

\* C25: a planning operation that succeeds leaves in sessionId the handle of
\* the first of its turns that carries one; every runClaude call of a phase
\* handler or of recoverFromError passes the current sessionId as its resume
\* argument; and sessionId changes only when a planning operation succeeds.
C25_SessionHandle ==
    /\ [][(pc = "await_phase" /\ opId[1] = "planning" /\ pc' = "phase_ok") =>
            (\E turns \in Turns :
                sessionId' = (IF turns.session_id # 0 THEN turns.session_id ELSE sessionId))]_vars
    /\ [][(pc \in {"loop", "rec_loop"}) =>
            (\A p \in Spawned(procs, procs') : procs'[p].args = sessionId)]_vars
    /\ [][sessionId' # sessionId =>
            (pc = "await_phase" /\ opId[1] = "planning" /\ pc' = "phase_ok")]_vars

-----------------------------------------------------------------------------
(* Properties of the close handler and the phase handlers (SpecOut) *)

Results(turns) == [i \in 1..Len(turns) |-> turns[i].result]

TestingDone == pc = "out_done" /\ opId[1] = "testing" /\ runResult.ok

\* C23: a testing operation that succeeds sets phase to critique exactly
\* when the result texts of its turns, concatenated, contain "fail", "error"
\* or "critical" in any letter case, and to completion otherwise.
C23_TestingRoutes ==
    TestingDone =>
        phase = IF \E word \in FailureWords :
                      includes(toLowerCase(Concat(Results(runResult.turns))), word)
                THEN "critique" ELSE "completion"

\* C23 as the code has it: the result texts are joined by a space, so the
\* phase is critique exactly when the result text of one of the turns
\* contains one of the three words in any letter case.
C23_TestingRoutesPerTurn ==
    TestingDone =>
        phase = IF \E i \in 1..Len(runResult.turns), word \in FailureWords :
                      includes(toLowerCase(runResult.turns[i].result), word)
                THEN "critique" ELSE "completion"

\* testing has gone to critique on "FAIL" in the second of two turns
C23_Witness ==
    /\ TestingDone
    /\ phase = "critique"
    /\ Len(runResult.turns) = 2
    /\ runResult.turns[2].result = <<"F", "A", "I", "L">>
    /\ runResult.turns[1].result = <<"p", "a", "s", "s">>

\* the output lines that hold a JSON value, by their index
JsonLines == {i \in 1..Len(stdout) : stdout[i].kind = "json"}

\* C24: runClaude resolves exactly when the subprocess exited with code 0,
\* wrote at least one line that is not blank, and every such line parsed;
\* the turns are then the parsed lines in the order of the output.
C24_TurnsOnlyOnCleanExit ==
    pc \in {"out_handler", "out_done"} =>
        /\ runResult.ok <=>
              /\ exitStatus = 0
              /\ JsonLines # {}
              /\ \A i \in 1..Len(stdout) : stdout[i].kind # "bad"
        /\ runResult.ok =>
              \E f \in [1..Len(runResult.turns) -> JsonLines] :
                  /\ \A i, j \in 1..Len(runResult.turns) : i < j => f[i] < f[j]
                  /\ \A l \in JsonLines : \E i \in 1..Len(runResult.turns) : f[i] = l
                  /\ \A i \in 1..Len(runResult.turns) : runResult.turns[i] = stdout[f[i]].turn
        /\ ~runResult.ok => runResult.turns = <<>>

\* a call has resolved with two turns from an output with a blank line
\* between them
C24_Witness ==
    /\ pc = "out_handler"
    /\ runResult.ok
    /\ Len(stdout) = 3 /\ stdout[2].kind = "blank"
    /\ Len(runResult.turns) = 2
    /\ runResult.turns[1] # runResult.turns[2]

-----------------------------------------------------------------------------
(* Properties of createCheckpoint (SpecCP) *)

\* C26: after n createCheckpoint calls at distinct times, Min(n,
\* KeepCheckpoints) checkpoints remain; a call removes only checkpoints
\* older than every checkpoint it leaves, and leaves the one it wrote; and
\* there are never more than KeepCheckpoints checkpoints after a call.
C26_KeepsLatestTen ==
    /\ [](stalls = 0 => Cardinality(checkpoints) = Min(written, KeepCheckpoints))
    /\ [](Cardinality(checkpoints) <= KeepCheckpoints)
    /\ [][(written' = written + 1 /\ stalls' = 0) =>
            /\ \E f \in checkpoints' : f.time = clock' /\ f \notin checkpoints
            /\ \A g \in checkpoints \ checkpoints', f \in checkpoints' : g.time < f.time
            /\ \A f \in checkpoints' : f.time = clock' \/ f \in checkpoints]_vars

\* more calls than KeepCheckpoints have been made at distinct times, and
\* the first checkpoints are gone
C26_Witness ==
    /\ stalls = 0
    /\ sessionFile = <<>>
    /\ loaded = <<>>
    /\ written = KeepCheckpoints + 2
    /\ Cardinality(checkpoints) = KeepCheckpoints
    /\ \A f \in checkpoints : f.time > 2

-----------------------------------------------------------------------------
(* Properties of the shutdown (SpecSD) *)

\* C27: the shutdown sequence runs at most once whatever the number and the
\* timing of the signals: the session is saved and the 'shutdown' checkpoint
\* written in one step, once; a signal that arrives while a shutdown is
\* under way changes nothing.
C27_ShutdownOnce ==
    /\ [](shutdowns <= 1)
    /\ [][shutdowns' # shutdowns =>
            (/\ shutdowns' = shutdowns + 1
             /\ saved' = <<saveSessionState(phase, iteration, sessionId, errors, metrics)>>
             /\ lastCheckpoint' = <<"shutdown", "shutdown">>)]_vars
    /\ [][lastCheckpoint'[1] = "shutdown" /\ lastCheckpoint[1] # "shutdown"
            => shutdowns' = shutdowns + 1]_vars
    /\ [][(signals' # signals /\ isShuttingDown) =>
            UNCHANGED <<sessionVars, engineVars, rmVars, procVars, fbVars, auditVars,
                        opStart, isShuttingDown, cleanupTimer, shutdowns>>]_vars

\* a second signal has arrived while cleanup was waiting, and the shutdown
\* has then completed
C27_Witness ==
    /\ signals = 2
    /\ shutdowns = 1
    /\ lastCheckpoint = <<"shutdown", "shutdown">>
    /\ exitCode = 0
    /\ activeOperations # {}

\* C28: once a shutdown signal has been received the loop dispatches no
\* phase handler and the forced completion pass is not started.
C28_NoDispatchAfterSignal ==
    [][isShuttingDown => ~(pc = "loop" /\ pc' \in {"await_phase", "phase_fail"})]_vars

\* C29: cleanup returns only when no operation is in flight or the bounded
\* wait has elapsed, and in both cases it can return: time does not pass
\* beyond the bounded wait; the shutdown removes no id from the in-flight
\* set and ends no subprocess; and when cleanup has returned the session is
\* saved and the 'shutdown' checkpoint written, whether or not operations
\* are still in flight.
C29_CleanupReturns ==
    /\ [][(cleanupTimer >= 0 /\ cleanupTimer' = -1) =>
            (/\ activeOperations = {} \/ cleanupTimer = 0
             /\ saved' = <<saveSessionState(phase, iteration, sessionId, errors, metrics)>>
             /\ lastCheckpoint' = <<"shutdown", "shutdown">>
             /\ exitCode' = 0)]_vars
    /\ []((cleanupTimer >= 0 /\ ProcessWaits /\ (activeOperations = {} \/ cleanupTimer = 0))
            => ENABLED CleanupReturns)
    /\ [][cleanupTimer = 0 => cleanupTimer' \in {0, -1}]_vars
    /\ [][(signals' # signals \/ shutdowns' # shutdowns) =>
            (activeOperations' = activeOperations /\ procs' = procs)]_vars

\* cleanup has returned after the bounded wait with an operation in flight
C29_Witness ==
    /\ shutdowns = 1
    /\ exitCode = 0
    /\ activeOperations # {}
    /\ saved # <<>>
    /\ lastCheckpoint = <<"shutdown", "shutdown">>
    /\ signals = 1

-----------------------------------------------------------------------------
(* Properties of the resumed run (SpecResume) *)

Session(ph, it, sid, errs, m) ==
    [phase |-> ph, iteration |-> it, sessionId |-> sid, errors |-> errs, metrics |-> m]

\* the session file holds phase, iteration and sessionId as they are now
FileIsCurrent(files, ph, it, sid) ==
    /\ files # <<>>
    /\ loadSessionState(files).phase = ph
    /\ loadSessionState(files).iteration = it
    /\ loadSessionState(files).sessionId = sid

\* C30 where no Discord feedback interrupts an operation (SpecResume): a
\* process that is started finds in the session file the phase, the
\* iteration and the sessionId that the process before it had after its last
\* successful operation in the loop, or when it shut down: the file is
\* written only by such a step, it then holds the three values of that
\* moment, and loading a file that was saved yields phase, iteration,
\* sessionId and errors as they were saved; without a file the session is
\* fresh, at planning and iteration 0.
C30_ResumesFromFile ==
    /\ [](loadSessionState(<<saveSessionState(phase, iteration, sessionId, errors, metrics)>>)
            = Session(phase, iteration, sessionId, errors, metrics))
    /\ [][restarts' # restarts =>
            IF saved = <<>>
            THEN Session(phase', iteration', sessionId', errors', metrics')
                   = Session("planning", 0, 0, <<>>, ZeroMetrics)
            ELSE /\ FileIsCurrent(saved, phase', iteration', sessionId')
                 /\ errors' = loadSessionState(saved).errors
                 /\ metrics' = loadSessionState(saved).metrics]_vars
    /\ [][((pc = "phase_ok" /\ ~opForced /\ restarts' = restarts) \/ shutdowns' # shutdowns) =>
            FileIsCurrent(saved', phase', iteration', sessionId')]_vars
    /\ [][saved' # saved =>
            (/\ pc \in {"phase_ok", "rec_ok"} \/ shutdowns' # shutdowns
             /\ saved' = <<saveSessionState(phase', iteration', sessionId', errors', metrics')>>)]_vars

\* a process was stopped while it awaited an operation and the next one has
\* resumed at testing with a session id and a recorded error
C30_Witness ==
    /\ restarts = 1
    /\ pc = "await_phase"
    /\ phase = "testing"
    /\ iteration = 2
    /\ sessionId = 1
    /\ errors # <<>>
    /\ FileIsCurrent(saved, phase, iteration, sessionId)

\* C30: after every successful phase operation of the loop the session file
\* holds the phase, the iteration and the sessionId of that moment, so a
\* process started afterwards resumes with them.
C30_InLoopSavesOnly ==
    [][(pc = "phase_ok" /\ ~opForced) =>
            FileIsCurrent(saved', phase', iteration', sessionId')]_vars

-----------------------------------------------------------------------------
(* Properties of loadSessionState (SpecLoad) *)

\* C31: a session loaded from a file that lacks phase, iteration,
\* maxIterations, startTime, errors or metrics has in each field the file
\* lacks the initial value of the field.
C31_MissingFieldsDefault ==
    [](loaded # <<>> =>
        \A f \in SessionFields \ DOMAIN sessionFile :
            Field(loaded[1], f) = Field(initialState, f))

-----------------------------------------------------------------------------
(* Properties of the deadlines, the session and the counters (Spec) *)

\* a step in which the timeout of runClaude kills the subprocess of the
\* operation the engine awaits
AwaitedKilled ==
    \E p \in ProcIds : procs[p].awaited /\ procs[p].sig # "kill" /\ procs'[p].sig = "kill"

\* the ticks since the awaited phase operation started: its timer was set to
\* the deadline of its phase
Elapsed == PhaseTimeout(opId[1]) - rmTimer

\* C32: the invocation of a phase operation is not killed, and the operation
\* not failed, for a timeout before the deadline of its phase has passed
\* since the operation started: twice the standard timeout for
\* implementation, one and a half times for testing, once for the others.
C32_PhaseDeadline ==
    [][(pc = "await_phase" /\ AwaitedKilled) => Elapsed >= PhaseTimeout(opId[1])]_vars

\* C33: phase and sessionId change only when the operation the engine
\* awaits returns, or when the loop forces completion: the handler of an
\* operation that was settled as timed out or failed changes neither.
C33_OnlyAwaitedMutates ==
    [][(phase' # phase \/ sessionId' # sessionId) =>
            ((pc = "await_phase" /\ pc' = "phase_ok") \/ pc = "loop")]_vars

\* C34: errors only grows; every failed phase operation appends one entry,
\* not recovered, that holds the phase the session is in when the operation
\* fails, and nothing else appends; an entry changes afterwards only by
\* recovered going from false to true.
C34_ErrorsAppendOnly ==
    /\ [][/\ Len(errors') >= Len(errors)
          /\ \A i \in 1..Len(errors) :
                /\ errors'[i].phase = errors[i].phase
                /\ errors[i].recovered => errors'[i].recovered]_vars
    /\ [][Len(errors') # Len(errors) => pc = "phase_fail"]_vars
    /\ [][(pc = "phase_fail" /\ pc' # pc) =>
            errors' = Append(errors, [phase |-> phase, recovered |-> FALSE])]_vars

\* a failure in planning was recovered from and a failure in implementation
\* has been recorded after it
C34_Witness ==
    /\ Len(errors) = 2
    /\ errors[1] = [phase |-> "planning", recovered |-> TRUE]
    /\ errors[2] = [phase |-> "implementation", recovered |-> FALSE]
    /\ opId[1] = "implementation"
    /\ pc = "rec_loop"

\* the recovery attempts of the current recoverFromError call that have
\* failed with an error that is not a rate-limit error, when one has just
\* failed
FailedAttempts == attempts - rlAttempts

\* C35: when the k-th recovery attempt that fails without a rate-limit error
\* has failed, recoverFromError waits 2^k seconds if k < maxRetries and
\* does not wait if k = maxRetries.
C35_BackoffDoubles ==
    [][(pc = "rec_fail" /\ ~IsRateLimit(errClass)) =>
            IF FailedAttempts < maxRetries
            THEN pc' = "backoff" /\ BackoffSeconds(retries') = 2 ^ FailedAttempts
            ELSE pc' = "rec_loop"]_vars

\* C35 for a recoverFromError call in which no attempt has failed with a
\* rate-limit error
C35_BackoffDoublesUnlimited ==
    [][(pc = "rec_fail" /\ ~IsRateLimit(errClass) /\ rlAttempts = 0) =>
            IF FailedAttempts < maxRetries
            THEN pc' = "backoff" /\ BackoffSeconds(retries') = 2 ^ FailedAttempts
            ELSE pc' = "rec_loop"]_vars

\* C36: the close handler discards the result of a call and runs the call
\* again only if a subprocess that is alive was sent a signal: a call whose
\* subprocess exits on its own returns its result, whatever feedback
\* arrived while no subprocess was alive.
C36_UnsignalledReturns ==
    [][(shouldInterruptForFeedback /\ ~shouldInterruptForFeedback') =>
            (\E p \in ProcIds : procs[p].st = "live" /\ procs[p].sig # "none")]_vars

-----------------------------------------------------------------------------
(* Properties of the run as a whole (SpecLive) *)

\* C37: every run ends: a completion operation returns or the run aborts.
C37_RunTerminates == <>(pc \in {"done", "exited"})

-----------------------------------------------------------------------------
(* Properties of the counters of the session (SpecResume) *)

\* executePhase has counted an operation and awaits it
PhaseInFlight == IF pc = "await_phase" THEN 1 ELSE 0

\* C38: while the process runs, totalOperations = successfulOperations +
\* failedOperations, plus one while executePhase awaits its operation; no
\* counter decreases, and recovery attempts change none.
C38_CountersAddUp ==
    /\ []((pc \notin {"exited", "phase_ok", "phase_fail"}) =>
            metrics.totalOperations
              = metrics.successfulOperations + metrics.failedOperations + PhaseInFlight)
    /\ [][restarts' = restarts =>
            (/\ metrics'.totalOperations >= metrics.totalOperations
             /\ metrics'.successfulOperations >= metrics.successfulOperations
             /\ metrics'.failedOperations >= metrics.failedOperations)]_vars
    /\ [][(pc \in {"rec_loop", "await_rec", "rec_ok", "rec_fail", "backoff", "rec_rl_sleep"}
           /\ restarts' = restarts) => metrics' = metrics]_vars

\* C38 within the life of one process that started afresh
C38_CountersAddUpFresh ==
    /\ []((restarts = 0 /\ pc \notin {"exited", "phase_ok", "phase_fail"}) =>
            metrics.totalOperations
              = metrics.successfulOperations + metrics.failedOperations + PhaseInFlight)
    /\ [][restarts' = restarts =>
            (/\ metrics'.totalOperations >= metrics.totalOperations
             /\ metrics'.successfulOperations >= metrics.successfulOperations
             /\ metrics'.failedOperations >= metrics.failedOperations)]_vars
    /\ [][(pc \in {"rec_loop", "await_rec", "rec_ok", "rec_fail", "backoff", "rec_rl_sleep"}
           /\ restarts' = restarts) => metrics' = metrics]_vars

-----------------------------------------------------------------------------
(* Properties of the ResourceManager as the orchestrator drives it (Spec) *)

\* C39: the in-flight set never holds more than one id; it is empty whenever
\* the engine starts an operation, so executeOperation never rejects for
\* capacity, whatever maximum of at least 1 is configured.
C39_OneInFlight ==
    /\ [](Cardinality(activeOperations) <= 1)
    /\ [](pc \in {"loop", "rec_loop"} => activeOperations = {})
    /\ [][(pc \in {"loop", "rec_loop"}) => pc' \notin {"phase_fail", "rec_fail"}]_vars

\* the second recovery attempt is in flight, alone in the set, while the
\* subprocess of an operation that timed out is still alive
C39_Witness ==
    /\ pc = "await_rec"
    /\ activeOperations = {<<"recovery", 1>>}
    /\ Cardinality(Live(procs)) = 2

\* C40: feedback is not lost when an invocation fails: by the time the
\* retried phase operation has built its prompt, every feedback item of the
\* prompt of a failed awaited invocation has been in the prompt of a
\* recovery attempt or is in the prompt of the retried operation
C40_FeedbackNotLost ==
    [][(pc = "loop" /\ pc' = "await_phase") => unserved' = {}]_vars

=============================================================================
